---- MODULE Spec2Model ----
(***************************************************************************)
(* Model of the sell-schedule feature of best-aeon                         *)
(* (src/features/sell-schedule.ts): the in-memory schedule, the handlers   *)
(* that reconcile it with the chat events, and the publish queue that      *)
(* renders it into the destination channels.                               *)
(*                                                                         *)
(* One step of the model is one run of the JavaScript event loop from a    *)
(* delivered event (or a completed I/O call) to the next point where every *)
(* handler is suspended at an await on real I/O.  Continuations that are   *)
(* only promise reactions (microtasks) run inside the step that enables    *)
(* them, since no event is delivered between two microtasks.               *)
(***************************************************************************)
EXTENDS Integers, Sequences, FiniteSets, TLC

\* ---------------------------------------------------------------- bounds
\* Number of chat events (create, update, delete, bulk delete, reaction,
\* button) delivered in one behaviour.
MaxEvents == 2

\* The source messages of the model.
MsgIds == {1}

\* The users that react and press buttons.
Users == {"u1"}

\* The contents a sell message can have: the timestamp and the cleaned title
\* that parseScheduleMessage extracts from it.
Contents == { [date |-> 10, text |-> "Raid A"], [date |-> 20, text |-> "Raid B"] }

\* ---------------------------------------------------- static configuration
\* sellChannels: the source channels and the region of each.
sellChannels == [c \in {"scheduled-raids", "na-scheduled-raids"} |->
                   [region |-> IF c = "scheduled-raids" THEN "EU" ELSE "NA"]]

\* The order in which the backfill visits the source channels.
sellChannelOrder == << "scheduled-raids", "na-scheduled-raids" >>

\* scheduleChannelIds: the destination channels and the regions each shows.
scheduleChannelIds ==
  << [id |-> "schedule", regions |-> {"EU", "NA"}],
     [id |-> "na-schedule", regions |-> {"NA"}] >>

NDest == Len(scheduleChannelIds)

\* new Queue({ autostart: true, concurrency: 1 })
concurrency == 1

VARIABLES
  msgs,             \* the source channels: per message its state on the platform
  posted,           \* the destination channels: the bot's messages in each
  gcalValid,        \* gcal.clientIsValid()
  schedule,         \* const schedule: ScheduleMessage[]
  writtenSchedule,  \* let writtenSchedule: string[]
  isStarting,       \* let isStarting
  jobs,             \* q.jobs, the tasks waiting in the queue
  running,          \* the tasks the queue has started and that have not finished
  endListener,      \* whether endListener is registered for the queue's 'end'
  ready,            \* the position of the 'ready' handler (the backfill)
  procs,            \* the event handlers suspended at an await
  nev,              \* number of events delivered
  nPushed,          \* number of tasks pushed onto the queue
  startLog,         \* the tasks in the order the queue started them
  finished,         \* the tasks that have finished
  prev,             \* what happened since the previous publish cycle began
  ioFailed,         \* whether a call to the platform has thrown
  ilog,             \* the button interactions and how they were answered
  calendar,         \* the target calendar: its events in the order events.list walks them
  gcalCall          \* the position of a createEventFromScheduleMessage call

world == << msgs, posted, gcalValid, calendar, gcalCall >>
bot   == << schedule, writtenSchedule, isStarting, jobs, running, endListener,
            ready, procs, nPushed, startLog, finished, prev, ioFailed >>
vars  == << msgs, posted, gcalValid, schedule, writtenSchedule, isStarting, jobs,
            running, endListener, ready, procs, nev, nPushed, startLog, finished,
            prev, ioFailed, ilog, calendar, gcalCall >>

\* no createEventFromScheduleMessage call has been made
NoCall == [pc |-> "idle", id |-> 0, has |-> FALSE, title |-> "", start |-> 0,
           existed |-> FALSE, raised |-> FALSE]

\* ------------------------------------------------------------- sequences
Range(s) == { s[i] : i \in 1..Len(s) }

RemoveAt(s, i) == SubSeq(s, 1, i - 1) \o SubSeq(s, i + 1, Len(s))

\* Array.prototype.findIndex on the schedule, by message id: 0 when absent.
findIndex(sched, id) ==
  IF \E i \in 1..Len(sched) : sched[i].id = id
  THEN CHOOSE i \in 1..Len(sched) :
         sched[i].id = id /\ \A j \in 1..(i - 1) : sched[j].id # id
  ELSE 0

\* A set of users as the array users.map((_, id) => id) gives it.
RECURSIVE UserSeq(_)
UserSeq(S) ==
  IF S = {} THEN << >>
  ELSE LET u == CHOOSE x \in S : TRUE IN << u >> \o UserSeq(S \ {u})

\* ------------------------------------------------------------ fingerprint
\* item.id + item.date + item.text; the concatenation is one-to-one on the
\* ids, dates and texts of the model, so it is kept as the triple.
Fingerprint(item) == << item.id, item.date, item.text >>

FingerprintOf(sched) == [i \in 1..Len(sched) |-> Fingerprint(sched[i])]

\* ---------------------------------------------------------------- render
\* The lines of a page.  An entry's line is
\* `<t:${date}:F> ${text} ${url} ` and is kept as the entry's id, date and text.
EntryLine(message) ==
  [kind |-> "entry", id |-> message.id, date |-> message.date, text |-> message.text]

SplitLine == [kind |-> "split", id |-> 0, date |-> 0, text |-> "-------------------------"]

SubtextLine(n) == [kind |-> "subtext", id |-> 0, date |-> n, text |-> "items not displayed"]

LoadingLine == [kind |-> "notice", id |-> 0, date |-> 0, text |-> "Loading History..."]

\* One of NO_SELLS_COMMENTS.
NoSellsLine == [kind |-> "notice", id |-> 0, date |-> 0, text |-> "NO_SELLS_COMMENTS"]

\* newText.length: "<t:" date ":F> " text " " url " ", with a ten-digit
\* timestamp and the 88 characters of a message permalink.
LineLen(message) == 7 + 10 + Len(message.text) + 1 + 88 + 1

\* history.sort((a, b) => a.date - b.date): a stable insertion sort.
RECURSIVE InsertByDate(_, _)
InsertByDate(sorted, message) ==
  IF sorted = << >> THEN << message >>
  ELSE IF Head(sorted).date <= message.date
       THEN << Head(sorted) >> \o InsertByDate(Tail(sorted), message)
       ELSE << message >> \o sorted

RECURSIVE SortByDate(_)
SortByDate(history) ==
  IF history = << >> THEN << >>
  ELSE InsertByDate(SortByDate(SubSeq(history, 1, Len(history) - 1)),
                    history[Len(history)])

\* The length at which a page is closed: `>= 1900`.
Budget == 1900

\* The test made on the page's length alone, before the line is counted.
overBudgetBefore(length, n) == length >= Budget

\* if (cum.length + newText.length >= 1900)
overBudget(length, n) == length + n >= Budget

\* A page closed without resetting the accumulated length.
closePageKeepLength(cum) == [cum EXCEPT !.position = @ + 1]

\* cum.position++; cum.length = 0
closePage(cum) == [cum EXCEPT !.position = @ + 1, !.length = 0]

\* A count that leaves out the entry that did not fit.
remainingAfter(total, index) == total - index - 1

\* history.length - index: the entries from the one that did not fit onwards
remaining(total, index) == total - index

\* The reducer of getPrunedOutput, applied to history[index + 1] (index is the
\* zero-based index of the code); cum.position is zero-based as in the code.
PruneStep(cum, message, index, total, addSubtext) ==
  IF cum.hasAddedSubText THEN cum
  ELSE
    LET opened ==
          IF Len(cum.output) - 1 < cum.position
          THEN IF index # 0
               THEN [cum EXCEPT !.output = Append(@, << SplitLine >>),
                                !.length = @ + Len(SplitLine.text)]
               ELSE [cum EXCEPT !.output = Append(@, << >>)]
          ELSE cum
    IN IF overBudget(opened.length, LineLen(message))
       THEN LET noted ==
                  IF addSubtext
                  THEN [opened EXCEPT
                          !.hasAddedSubText = TRUE,
                          !.output[opened.position + 1] =
                             Append(@, SubtextLine(remaining(total, index)))]
                  ELSE opened
            IN closePage(noted)
       ELSE [opened EXCEPT
               !.output[opened.position + 1] = Append(@, EntryLine(message)),
               !.length = @ + LineLen(message)]

RECURSIVE PruneFrom(_, _, _, _)
PruneFrom(cum, history, index, addSubtext) ==
  IF index >= Len(history) THEN cum
  ELSE PruneFrom(PruneStep(cum, history[index + 1], index, Len(history), addSubtext),
                 history, index + 1, addSubtext)

getPrunedOutput(history, addSubtext) ==
  PruneFrom([length |-> 0, position |-> 0, output |-> << >>, hasAddedSubText |-> FALSE],
            SortByDate(history), 0, addSubtext).output

\* schedule.filter((message) => channelInfo.regions.includes(message.region))
regionScheduleOf(sched, regions) == SelectSeq(sched, LAMBDA message : message.region \in regions)

\* The button put on every page.
carriesButtonAlways(i, n) == TRUE

\* ...(i === result.length - 1 && { components: [row] }), i counted from 1.
carriesButton(i, n) == i = n

\* The messages channel.send is called with for one destination: the pages in
\* order, the last one carrying the "My Schedule" button.
PagesToSend(sched, regions) ==
  LET result == getPrunedOutput(regionScheduleOf(sched, regions), FALSE) IN
    [i \in 1..Len(result) |->
       [lines |-> result[i], button |-> carriesButton(i, Len(result))]]

LoadingPage == [lines |-> << LoadingLine >>, button |-> FALSE]

NoSellsPage == [lines |-> << NoSellsLine >>, button |-> FALSE]

\* ------------------------------------------------------------------ state
\* The bot's state as one record, so that the synchronous part of a handler
\* (several calls, one after the other) is the composition of operators.
St ==
  [schedule |-> schedule, writtenSchedule |-> writtenSchedule,
   isStarting |-> isStarting, jobs |-> jobs, running |-> running,
   endListener |-> endListener, ready |-> ready, procs |-> procs,
   nPushed |-> nPushed, startLog |-> startLog, finished |-> finished,
   prev |-> prev, ioFailed |-> ioFailed]

\* The assignment of the record to the variables (the record is bound once).
Set(s) ==
  \E t \in {s} :
    /\ schedule' = t.schedule
    /\ writtenSchedule' = t.writtenSchedule
    /\ isStarting' = t.isStarting
    /\ jobs' = t.jobs
    /\ running' = t.running
    /\ endListener' = t.endListener
    /\ ready' = t.ready
    /\ procs' = t.procs
    /\ nPushed' = t.nPushed
    /\ startLog' = t.startLog
    /\ finished' = t.finished
    /\ prev' = t.prev
    /\ ioFailed' = t.ioFailed

\* An assignment to the schedule.  prev remembers whether the store (ids,
\* dates, texts, order) is still the one the previous publish cycle began with.
setSchedule(s, sched) ==
  [s EXCEPT !.schedule = sched,
            !.prev = IF @ = "unchanged" /\ FingerprintOf(sched) # FingerprintOf(s.schedule)
                     THEN "changed" ELSE @]

\* ------------------------------------------------------------------ queue
\* The queue q of the `queue` package, as configured: autostart, concurrency 1.

\* The guard with <= for <.
CanStartOffByOne(pending) == pending <= concurrency

\* _start's guard: a task is started only while pending < concurrency.
CanStart(pending) == pending < concurrency

\* jobs.pop() for jobs.shift(): the task pushed last is started first.
pop(js) == [job |-> js[Len(js)], rest |-> SubSeq(js, 1, Len(js) - 1)]

\* jobs.shift(): the task that is started next, and the tasks left waiting.
shift(js) == [job |-> Head(js), rest |-> Tail(js)]

\* An 'end' event that clears isStarting whether or not endListener is registered.
doneWithoutListener(s) == [s EXCEPT !.isStarting = FALSE, !.endListener = FALSE]

\* done(): the 'end' event; endListener clears isStarting and removes itself.
done(s) ==
  IF s.endListener THEN [s EXCEPT !.isStarting = FALSE, !.endListener = FALSE] ELSE s

\* A push that merges a task into a waiting task of the same kind.
enqueueMerging(s, kind) ==
  IF \E i \in 1..Len(s.jobs) : s.jobs[i].kind = kind
  THEN [s EXCEPT !.nPushed = @ + 1]
  ELSE [s EXCEPT !.nPushed = @ + 1,
                 !.jobs = Append(@, [n |-> s.nPushed + 1, kind |-> kind])]

\* jobs.push(task)
enqueue(s, kind) ==
  [s EXCEPT !.nPushed = @ + 1,
            !.jobs = Append(@, [n |-> s.nPushed + 1, kind |-> kind])]

\* The fingerprint check that opens queueFunction: TRUE when the cycle returns
\* without writing.
isUnchanged(s) ==
  /\ Len(s.writtenSchedule) = Len(s.schedule)
  /\ \A i \in 1..Len(s.schedule) : Fingerprint(s.schedule[i]) = s.writtenSchedule[i]

\* A publish cycle that has passed the fingerprint check and is suspended at
\* the fetch of the first destination's messages.
NewCycle(s, job) ==
  [n |-> job.n, d |-> 1, ph |-> "fetch", todel |-> 0, pages |-> << >>, pi |-> 0,
   writes |-> 0, mustSkip |-> (s.prev = "unchanged"),
   afterFailure |-> (s.prev = "failed")]

\* A queue that ends on an error: the waiting tasks are dropped.
afterErrorEnd(s) == [s EXCEPT !.jobs = << >>]

\* What the queue does with a task that throws (its promise rejects): the
\* 'error' event is dispatched to an EventTarget without listener for it, and
\* the queue goes on as after a success.
afterError(s) == s

RECURSIVE start(_)
RECURSIVE next(_, _, _)

\* next(err) of task n: the task has finished.
next(s, n, err) ==
  LET s1 == [s EXCEPT !.running = { r \in @ : r.n # n },
                      !.finished = @ \cup {n}]
      s2 == IF err THEN afterError(s1) ELSE s1
  IN IF s2.running = {} /\ s2.jobs = << >> THEN done(s2) ELSE start(s2)

\* _start(): starts waiting tasks while the concurrency allows.  A task runs
\* synchronously to its first await: the startup task (createMessages itself)
\* pushes a queueFunction and resolves; a queueFunction whose fingerprint
\* check finds nothing new resolves; any other queueFunction is left
\* suspended at its first fetch.
start(s) ==
  IF ~CanStart(Cardinality(s.running)) THEN s
  ELSE IF s.jobs = << >> THEN (IF s.running = {} THEN done(s) ELSE s)
  ELSE
    LET job == shift(s.jobs).job
        s1 == [s EXCEPT !.jobs = shift(s.jobs).rest, !.startLog = Append(@, job.n)]
    IN IF job.kind = "createMessages"
       THEN next(enqueue(s1, "queueFunction"), job.n, FALSE)
       ELSE IF isUnchanged(s1)
            THEN next([s1 EXCEPT !.prev = "unchanged"], job.n, FALSE)
            ELSE start([s1 EXCEPT !.running = @ \cup { NewCycle(s1, job) },
                                  !.prev = "unchanged"])

\* q.push(task) with autostart.
push(s, kind) == start(enqueue(s, kind))

\* createMessages(): builds queueFunction and pushes it.
createMessages(s) == push(s, "queueFunction")

\* --------------------------------------------------------- updateSchedule
\* client.users.cache.get(id)?.username, the users fetched being cached.
username(id) == id \o "-name"

\* createCalendarEventFromMessage: the title, start and guests of the event.
createCalendarEventFromMessage(message) ==
  [title |-> message.text, start |-> message.date * 1000, guests |-> message.reactorNames]

\* The ScheduleMessage parseScheduleMessage builds for message m.
ScheduleMessage(m, channelId, date, text, users) ==
  LET userIds == UserSeq(users)
      scheduleMessage ==
        [id |-> m, channelId |-> channelId, region |-> sellChannels[channelId].region,
         date |-> date, text |-> text, reactorIds |-> userIds,
         reactorNames |-> [i \in 1..Len(userIds) |-> username(userIds[i])]]
  IN [x \in DOMAIN scheduleMessage \cup {"calendarEvent"} |->
        IF x = "calendarEvent" THEN createCalendarEventFromMessage(scheduleMessage)
        ELSE scheduleMessage[x]]

\* updateSchedule without its lookup of the message id: it always pushes.
updateStoreAlwaysPush(sched, sm) == Append(sched, sm)

\* updateSchedule replacing the tracked entry by the parsed message.
updateStoreReplace(sched, sm) ==
  IF findIndex(sched, sm.id) # 0
  THEN [sched EXCEPT ![findIndex(sched, sm.id)] = sm]
  ELSE Append(sched, sm)

\* updateSchedule after the parse: update date and text of the entry with the
\* message's id, or push the parsed message.
updateStore(sched, sm) ==
  LET messageIndex == findIndex(sched, sm.id) IN
    IF messageIndex # 0
    THEN [sched EXCEPT ![messageIndex].date = sm.date, ![messageIndex].text = sm.text]
    ELSE Append(sched, sm)

\* A handler execution as it is suspended at an await.
Proc(ev, kind, id, user) ==
  [ev |-> ev, kind |-> kind, id |-> id, user |-> user, pc |-> "start",
   channelId |-> "", date |-> 0, text |-> "", mutated |-> FALSE,
   starting |-> FALSE, found |-> FALSE]

\* The handler execution p ends.
finishHandler(s, p) == [s EXCEPT !.procs = { x \in @ : x.ev # p.ev }]

\* What follows `await updateSchedule(message)` in messageCreate and
\* messageUpdate, and the un-awaited call of the reaction handlers.
afterUpdate(s, p) ==
  IF p.kind \in {"messageCreate", "messageUpdate"}
  THEN finishHandler(createMessages(s), p)
  ELSE finishHandler(s, p)

\* updateSchedule from the end of the parse to its first calendar call: with a
\* valid calendar client it is suspended there, without one it returns.
afterParse(s, p, users) ==
  LET sm == ScheduleMessage(p.id, p.channelId, p.date, p.text, users)
      s1 == setSchedule(s, updateStore(s.schedule, sm))
      p1 == [p EXCEPT !.mutated = @ \/ (s1.schedule # s.schedule), !.pc = "mirror",
                      !.found = (findIndex(s.schedule, p.id) # 0)]
  IN IF gcalValid
     THEN [s1 EXCEPT !.procs = { x \in @ : x.ev # p.ev } \cup { p1 }]
     ELSE IF p.kind = "ready" THEN s1 ELSE afterUpdate(s1, p1)

\* updateSchedule(message): parseScheduleMessage reads the content at once; it
\* is suspended at the fetch of the reacting users when the message carries
\* the sign-up reaction, and has no reactors otherwise.
callUpdate(s, w, p) ==
  LET p1 == [p EXCEPT !.channelId = w[p.id].channelId,
                      !.date = w[p.id].content.date, !.text = w[p.id].content.text] IN
    IF w[p.id].reacts # {}
    THEN [s EXCEPT !.procs = { x \in @ : x.ev # p.ev } \cup { [p1 EXCEPT !.pc = "parse"] }]
    ELSE afterParse(s, p1, {})

\* ------------------------------------------------------------------ ready
\* The messages of source channel c that the backfill's fetch returns.
RECURSIVE SetToSeq(_)
SetToSeq(S) ==
  IF S = {} THEN << >>
  ELSE LET x == CHOOSE y \in S : \A z \in S : y <= z IN << x >> \o SetToSeq(S \ {x})

\* A content without a timestamp; the parser reads it as date 0 and title ''.
NoTimestamp == [date |-> 0, text |-> ""]

\* A predicate that every content passes.
isSellMessageAlways(content) == TRUE

\* isSellMessage: the content holds a timestamp and some text around it.
isSellMessage(content) == content.date # 0 /\ content.text # ""

\* sellChannel.messages.fetch(), filtered by isSellMessage.
sellMessagesOf(w, c) ==
  SetToSeq({ m \in DOMAIN w : /\ w[m].live = "posted" /\ w[m].channelId = c
                              /\ isSellMessage(w[m].content) })

\* The end of the ready handler: register endListener, q.push(createMessages).
readyEnd(s) ==
  push([s EXCEPT !.endListener = TRUE, !.ready = [pc |-> "done", i |-> 0, work |-> << >>]],
       "createMessages")

\* The backfill loop from the message s.ready.work begins with, up to its next
\* await: updateSchedule is called only with a valid calendar client.
RECURSIVE readyLoop(_, _)
readyLoop(s, w) ==
  IF s.ready.work = << >>
  THEN IF s.ready.i < Len(sellChannelOrder)
       THEN [s EXCEPT !.ready = [pc |-> "scanFetch", i |-> s.ready.i + 1, work |-> << >>]]
       ELSE readyEnd(s)
  ELSE IF gcalValid
       THEN callUpdate([s EXCEPT !.ready = [pc |-> "update", i |-> s.ready.i,
                                            work |-> Tail(s.ready.work)]],
                       w, Proc(0, "ready", Head(s.ready.work), ""))
       ELSE readyLoop([s EXCEPT !.ready.work = Tail(@)], w)

\* The ready handler after the first loop's body for destination i.
readyNextDest(s) ==
  IF s.ready.i < NDest
  THEN [s EXCEPT !.ready = [pc |-> "destFetch", i |-> s.ready.i + 1, work |-> << >>]]
  ELSE [s EXCEPT !.ready = [pc |-> "scanFetch", i |-> 1, work |-> << >>]]

\* ------------------------------------------------------------------- Init
\* The platform at start-up: each source message belongs to the NA raid
\* channel, and either exists already (with some sign-up reactions) or is
\* posted later; the destination channels hold no message of the bot.
FirstContent == CHOOSE c \in Contents : \A x \in Contents : c.date <= x.date

InitMsg ==
  { [live |-> "none", channelId |-> "na-scheduled-raids", content |-> FirstContent,
     reacts |-> {}, others |-> {}] }
    \cup { [live |-> "posted", channelId |-> "na-scheduled-raids",
             content |-> FirstContent, reacts |-> R, others |-> {}] :
               R \in SUBSET Users }

Init ==
  /\ msgs \in [MsgIds -> InitMsg]
  /\ posted = [d \in 1..NDest |-> << >>]
  /\ gcalValid \in BOOLEAN
  /\ calendar = << >>
  /\ gcalCall = NoCall
  /\ schedule = << >>
  /\ writtenSchedule = << >>
  /\ isStarting = TRUE
  /\ jobs = << >>
  /\ running = {}
  /\ endListener = FALSE
  /\ ready = [pc |-> "destFetch", i |-> 1, work |-> << >>]
  /\ procs = {}
  /\ nev = 0
  /\ nPushed = 0
  /\ startLog = << >>
  /\ finished = {}
  /\ prev = "none"
  /\ ioFailed = FALSE
  /\ ilog = {}

\* ---------------------------------------------------- the ready handler
\* First loop: the fetch of destination i and of its messages has returned.
ReadyDestFetched ==
  /\ ready.pc = "destFetch"
  /\ Set(IF posted[ready.i] = << >>
         THEN [St EXCEPT !.ready.pc = "destSend"]
         ELSE readyNextDest(St))
  /\ UNCHANGED << msgs, posted, gcalValid, calendar, gcalCall, nev, ilog >>

\* First loop: channel.send('Loading History...') has returned.
ReadyDestSent ==
  /\ ready.pc = "destSend"
  /\ posted' = [posted EXCEPT ![ready.i] = Append(@, LoadingPage)]
  /\ Set(readyNextDest(St))
  /\ UNCHANGED << msgs, gcalValid, calendar, gcalCall, nev, ilog >>

\* Second loop: the fetch of source channel i and of its messages has returned.
ReadyScanFetched ==
  /\ ready.pc = "scanFetch"
  /\ Set(readyLoop([St EXCEPT !.ready.work = sellMessagesOf(msgs, sellChannelOrder[ready.i])],
                   msgs))
  /\ UNCHANGED << msgs, posted, gcalValid, calendar, gcalCall, nev, ilog >>

\* ------------------------------------------- suspended handler executions
\* The fetch of the reacting users has returned: the parse ends.
ParseDone(p) ==
  /\ p.pc = "parse"
  /\ Set(afterParse(St, p, msgs[p.id].reacts))
  /\ UNCHANGED << msgs, posted, gcalValid, calendar, gcalCall, nev, ilog >>

\* The fetch of the reacting users fails, the message being deleted:
\* updateSchedule rejects, and its caller goes on without createMessages.
ParseThrow(p) ==
  /\ p.pc = "parse"
  /\ msgs[p.id].live = "deleted"
  /\ Set(IF p.kind = "ready"
         THEN readyLoop([St EXCEPT !.procs = @ \ {p}, !.ioFailed = TRUE], msgs)
         ELSE finishHandler([St EXCEPT !.ioFailed = TRUE], p))
  /\ UNCHANGED << msgs, posted, gcalValid, calendar, gcalCall, nev, ilog >>

\* The calendar calls of updateSchedule have returned: updateSchedule returns.
MirrorDone(p) ==
  /\ p.pc = "mirror"
  /\ Set(IF p.kind = "ready"
         THEN readyLoop([St EXCEPT !.procs = @ \ {p}], msgs)
         ELSE afterUpdate(St, p))
  /\ UNCHANGED << msgs, posted, gcalValid, calendar, gcalCall, nev, ilog >>

\* client.users.fetch(reactorId) fails in the loop that follows the update of
\* the calendar event of a tracked entry: updateSchedule rejects.  The backfill
\* catches it and goes on; messageCreate and messageUpdate end without
\* createMessages; the reaction handlers do not await updateSchedule.
LookupThrow(p) ==
  /\ p.pc = "mirror"
  /\ p.found
  /\ findIndex(schedule, p.id) # 0
  /\ schedule[findIndex(schedule, p.id)].reactorIds # << >>
  /\ Set(IF p.kind = "ready"
         THEN readyLoop([St EXCEPT !.procs = @ \ {p}, !.ioFailed = TRUE], msgs)
         ELSE finishHandler([St EXCEPT !.ioFailed = TRUE], p))
  /\ UNCHANGED << msgs, posted, gcalValid, calendar, gcalCall, nev, ilog >>

\* reaction.message.fetch() has returned: updateSchedule is called, not awaited.
FetchDone(p) ==
  /\ p.pc = "fetch"
  /\ Set(callUpdate(St, msgs, p))
  /\ UNCHANGED << msgs, posted, gcalValid, calendar, gcalCall, nev, ilog >>

\* reaction.message.fetch() fails, the message being deleted.
FetchThrow(p) ==
  /\ p.pc = "fetch"
  /\ msgs[p.id].live = "deleted"
  /\ Set(finishHandler([St EXCEPT !.ioFailed = TRUE], p))
  /\ UNCHANGED << msgs, posted, gcalValid, calendar, gcalCall, nev, ilog >>

\* ------------------------------------------------------ the publish cycle
setCycle(s, r, r2) == [s EXCEPT !.running = (@ \ {r}) \cup {r2}]

\* queueFunction after the deletes of one destination: the store is filtered
\* for the destination's regions; with no entry the notice is sent and the
\* function returns, otherwise the pages are rendered and the first is sent.
afterDeletes(s, r) ==
  LET regions == scheduleChannelIds[r.d].regions IN
    IF regionScheduleOf(s.schedule, regions) = << >>
    THEN setCycle(s, r, [r EXCEPT !.ph = "notice"])
    ELSE setCycle(s, r, [r EXCEPT !.ph = "send", !.pi = 1,
                                  !.pages = PagesToSend(s.schedule, regions)])

\* The delete loop left out: the render follows the fetch at once.
afterFetchNoDelete(s, r, size) == afterDeletes(s, r)

\* queueFunction after the fetch of one destination's messages: the loop over
\* the bot's messages.size messages is suspended at its first delete.
afterFetch(s, r, size) ==
  IF size > 0
  THEN setCycle(s, r, [r EXCEPT !.ph = "delete", !.todel = size])
  ELSE afterDeletes(s, r)

\* queueFunction after the last send of one destination: the next destination,
\* or the fingerprint of the store is recorded and the function returns.
cycleNextDest(s, r) ==
  IF r.d < NDest
  THEN setCycle(s, r, [r EXCEPT !.d = @ + 1, !.ph = "fetch", !.pages = << >>,
                                !.pi = 0, !.todel = 0])
  ELSE next([s EXCEPT !.writtenSchedule = FingerprintOf(s.schedule)], r.n, FALSE)

\* channel.messages.fetch() has returned the bot's messages of destination d.
CycleFetched(r) ==
  /\ r.ph = "fetch"
  /\ Set(afterFetch(St, r, Len(posted[r.d])))
  /\ UNCHANGED << msgs, posted, gcalValid, calendar, gcalCall, nev, ilog >>

\* messageToDelete.delete() has returned.
CycleDeleted(r) ==
  /\ r.ph = "delete"
  /\ posted' = [posted EXCEPT ![r.d] = IF @ = << >> THEN @ ELSE Tail(@)]
  /\ LET r1 == [r EXCEPT !.todel = @ - 1, !.writes = @ + 1] IN
       Set(IF r1.todel > 0 THEN setCycle(St, r, r1)
           ELSE afterDeletes(setCycle(St, r, r1), r1))
  /\ UNCHANGED << msgs, gcalValid, calendar, gcalCall, nev, ilog >>

\* channel.send of page pi has returned.
CycleSent(r) ==
  /\ r.ph = "send"
  /\ posted' = [posted EXCEPT ![r.d] = Append(@, r.pages[r.pi])]
  /\ LET r1 == [r EXCEPT !.writes = @ + 1] IN
       Set(IF r.pi < Len(r.pages)
           THEN setCycle(St, r, [r1 EXCEPT !.pi = @ + 1])
           ELSE cycleNextDest(setCycle(St, r, r1), r1))
  /\ UNCHANGED << msgs, gcalValid, calendar, gcalCall, nev, ilog >>

\* channel.send of the no-sells notice has returned: queueFunction returns.
CycleNoticeSent(r) ==
  /\ r.ph = "notice"
  /\ posted' = [posted EXCEPT ![r.d] = Append(@, NoSellsPage)]
  /\ Set(next(St, r.n, FALSE))
  /\ UNCHANGED << msgs, gcalValid, calendar, gcalCall, nev, ilog >>

\* A fetch or a send of the cycle throws: the task's promise rejects.
CycleThrow(r) ==
  /\ r.ph \in {"fetch", "send", "notice"}
  /\ Set(next([St EXCEPT !.prev = "failed", !.ioFailed = TRUE], r.n, TRUE))
  /\ UNCHANGED << msgs, posted, gcalValid, calendar, gcalCall, nev, ilog >>

\* ------------------------------------------------------------- the events
\* messageCreate of a sell message by a user in a sell channel.
MessageCreate(m, c) ==
  /\ nev < MaxEvents
  /\ msgs[m].live = "none"
  /\ msgs' = [msgs EXCEPT ![m].live = "posted", ![m].content = c]
  /\ nev' = nev + 1
  /\ Set(callUpdate(St, msgs', Proc(nev + 1, "messageCreate", m, "")))
  /\ UNCHANGED << posted, gcalValid, calendar, gcalCall, ilog >>

\* messageUpdate of a message in a sell channel: its content is edited to
\* another sell message.
MessageUpdate(m, c) ==
  /\ nev < MaxEvents
  /\ msgs[m].live = "posted"
  /\ c # msgs[m].content
  /\ msgs' = [msgs EXCEPT ![m].content = c]
  /\ nev' = nev + 1
  /\ Set(callUpdate(St, msgs', Proc(nev + 1, "messageUpdate", m, "")))
  /\ UNCHANGED << posted, gcalValid, calendar, gcalCall, ilog >>

\* The splice without the guard on the index: splice(-1, 1) removes the last
\* entry when the message is not tracked.
removeEntryUnguarded(sched, id) ==
  IF sched = << >> THEN sched
  ELSE IF findIndex(sched, id) = 0 THEN RemoveAt(sched, Len(sched))
  ELSE RemoveAt(sched, findIndex(sched, id))

\* The body of the delete handlers for one message: splice when tracked.
removeEntry(sched, id) ==
  LET index == findIndex(sched, id) IN
    IF index = 0 THEN sched ELSE RemoveAt(sched, index)

RECURSIVE removeEntries(_, _)
removeEntries(sched, ids) ==
  IF ids = << >> THEN sched
  ELSE removeEntries(removeEntry(sched, Head(ids)), Tail(ids))

\* messageDelete.
MessageDelete(m) ==
  /\ nev < MaxEvents
  /\ msgs[m].live = "posted"
  /\ msgs' = [msgs EXCEPT ![m].live = "deleted"]
  /\ nev' = nev + 1
  /\ LET p == Proc(nev + 1, "messageDelete", m, "") IN
       Set(IF findIndex(schedule, m) = 0
           THEN finishHandler(St, p)
           ELSE finishHandler(createMessages(setSchedule(St, removeEntry(schedule, m))),
                              p))
  /\ UNCHANGED << posted, gcalValid, calendar, gcalCall, ilog >>

\* messageDeleteBulk of the messages S (none of them when the batch holds
\* messages of other channels only).
MessageDeleteBulk(S) ==
  /\ nev < MaxEvents
  /\ \A m \in S : msgs[m].live = "posted"
  /\ msgs' = [m \in DOMAIN msgs |->
                IF m \in S THEN [msgs[m] EXCEPT !.live = "deleted"] ELSE msgs[m]]
  /\ nev' = nev + 1
  /\ LET p == Proc(nev + 1, "messageDeleteBulk", 0, "")
         sched == removeEntries(schedule, SetToSeq(S))
     IN Set(finishHandler(createMessages(setSchedule(St, sched)),
                          p))
  /\ UNCHANGED << posted, gcalValid, calendar, gcalCall, ilog >>

\* The sign-up emoji, and any other emoji.
MCMysticCoinEmoji == "MCMysticCoin"

OtherEmoji == "other"

\* The guard without the test of the emoji.
observedAnyEmoji(index, emoji) == index # 0

\* The guard of both reaction handlers, negated: the message is tracked and
\* the emoji is the sign-up emoji.
observed(index, emoji) == index # 0 /\ emoji = MCMysticCoinEmoji

\* The messageReactionAdd handler up to its first await: return unless the
\* reaction is observed, push user.id, then fetch the message.
reactionAdd(s, p, emoji) ==
  LET index == findIndex(s.schedule, p.id) IN
    IF ~observed(index, emoji)
    THEN finishHandler(s, p)
    ELSE [setSchedule(s, [s.schedule EXCEPT ![index].reactorIds = Append(@, p.user)])
            EXCEPT !.procs = { x \in @ : x.ev # p.ev }
                               \cup { [p EXCEPT !.pc = "fetch", !.mutated = TRUE] }]

\* messageReactionAdd with the sign-up emoji.
MessageReactionAdd(m, u) ==
  /\ nev < MaxEvents
  /\ msgs[m].live = "posted"
  /\ u \notin msgs[m].reacts
  /\ msgs' = [msgs EXCEPT ![m].reacts = @ \cup {u}]
  /\ nev' = nev + 1
  /\ Set(reactionAdd(St, Proc(nev + 1, "messageReactionAdd", m, u), MCMysticCoinEmoji))
  /\ UNCHANGED << posted, gcalValid, calendar, gcalCall, ilog >>

\* reactorIds.indexOf(user.id): 0 when absent.
indexOf(ids, u) ==
  IF \E i \in 1..Len(ids) : ids[i] = u
  THEN CHOOSE i \in 1..Len(ids) : ids[i] = u /\ \A j \in 1..(i - 1) : ids[j] # u
  ELSE 0

\* The messageReactionRemove handler up to its first await: return unless the
\* reaction is observed, splice the first occurrence of user.id, then fetch the
\* message.
reactionRemove(s, p, emoji) ==
  LET index == findIndex(s.schedule, p.id)
      at == IF ~observed(index, emoji) THEN 0
            ELSE indexOf(s.schedule[index].reactorIds, p.user)
  IN IF at = 0
     THEN finishHandler(s, p)
     ELSE [setSchedule(s, [s.schedule EXCEPT ![index].reactorIds = RemoveAt(@, at)])
             EXCEPT !.procs = { x \in @ : x.ev # p.ev }
                                \cup { [p EXCEPT !.pc = "fetch", !.mutated = TRUE] }]

\* messageReactionRemove with the sign-up emoji.
MessageReactionRemove(m, u) ==
  /\ nev < MaxEvents
  /\ msgs[m].live = "posted"
  /\ u \in msgs[m].reacts
  /\ msgs' = [msgs EXCEPT ![m].reacts = @ \ {u}]
  /\ nev' = nev + 1
  /\ Set(reactionRemove(St, Proc(nev + 1, "messageReactionRemove", m, u),
                         MCMysticCoinEmoji))
  /\ UNCHANGED << posted, gcalValid, calendar, gcalCall, ilog >>

\* A handler without the guard.
neverStarting(s) == FALSE

\* The guard of the interactionCreate handler: if (isStarting).
stillStarting(s) == s.isStarting

\* interactionCreate: user u presses the "My Schedule" button of destination d.
InteractionCreate(u, d) ==
  /\ nev < MaxEvents
  /\ nev' = nev + 1
  /\ IF stillStarting(St)
     THEN /\ ilog' = ilog \cup { [starting |-> isStarting, reply |-> "booting", read |-> FALSE,
                                   content |-> << >>] }
          /\ UNCHANGED bot
     ELSE /\ ilog' = ilog
          /\ Set([St EXCEPT !.procs = @ \cup { [Proc(nev + 1, "interactionCreate", d, u)
                                                  EXCEPT !.pc = "defer",
                                                         !.starting = isStarting] }])
  /\ UNCHANGED << msgs, posted, gcalValid, calendar, gcalCall >>

\* The filter without the test of the region.
signedUpAnyRegion(message, user, regions) == indexOf(message.reactorIds, user) # 0

\* message.reactorIds.includes(interaction.user.id) && regions.includes(message.region)
signedUp(message, user, regions) ==
  indexOf(message.reactorIds, user) # 0 /\ message.region \in regions

\* interaction.deferReply() has returned: the schedule is filtered for the
\* user and the button's regions, and the reply is edited to the first page
\* of getPrunedOutput(result, true, false).
InteractionDeferred(p) ==
  /\ p.pc = "defer"
  /\ LET regions == scheduleChannelIds[p.id].regions
         result == SelectSeq(schedule, LAMBDA message : signedUp(message, p.user, regions))
     IN ilog' = ilog \cup { [starting |-> p.starting,
                             reply |-> IF result = << >> THEN "nothing" ELSE "personal",
                             read |-> TRUE,
                             content |-> IF result = << >> THEN << >>
                                         ELSE getPrunedOutput(result, TRUE)[1]] }
  /\ procs' = procs \ {p}
  /\ UNCHANGED << msgs, posted, gcalValid, calendar, gcalCall, nev, schedule, writtenSchedule, isStarting,
                  jobs, running, endListener, ready, nPushed, startLog, finished,
                  prev, ioFailed >>

\* ------------------------------------------------------------------- Next
Next ==
  \/ ReadyDestFetched
  \/ ReadyDestSent
  \/ ReadyScanFetched
  \/ \E p \in procs : ParseDone(p)
  \/ \E p \in procs : ParseThrow(p)
  \/ \E p \in procs : MirrorDone(p)
  \/ \E p \in procs : FetchDone(p)
  \/ \E p \in procs : FetchThrow(p)
  \/ \E p \in procs : InteractionDeferred(p)
  \/ \E r \in running : CycleFetched(r)
  \/ \E r \in running : CycleDeleted(r)
  \/ \E r \in running : CycleSent(r)
  \/ \E r \in running : CycleNoticeSent(r)
  \/ \E r \in running : CycleThrow(r)
  \/ \E m \in MsgIds, c \in Contents : MessageCreate(m, c)
  \/ \E m \in MsgIds, c \in Contents : MessageUpdate(m, c)
  \/ \E m \in MsgIds : MessageDelete(m)
  \/ \E S \in SUBSET MsgIds : MessageDeleteBulk(S)
  \/ \E m \in MsgIds, u \in Users : MessageReactionAdd(m, u)
  \/ \E m \in MsgIds, u \in Users : MessageReactionRemove(m, u)
  \/ \E u \in Users, d \in 1..NDest : InteractionCreate(u, d)

Spec == Init /\ [][Next]_vars

\* ------------------------------------------------ the paginator at work
\* The store right after a start-up scan that found n sell messages (calendar
\* client valid, so the scan tracked them all): the ready handler has pushed
\* the start-up task, the first publish cycle is at its first fetch, and the
\* destinations still hold the placeholder.  From there the cycle renders and
\* sends the pages, and a user presses the "My Schedule" button.

\* Number of sell messages found by the scan.
MaxItems == 18

\* Lengths of the cleaned titles (cleanUpTitle keeps them within 100).
TitleLens == {0, 80, 82, 83, 100}

RECURSIVE Title(_)
Title(n) == IF n = 0 THEN "" ELSE "x" \o Title(n - 1)

\* n messages in the order the scan met them: titles of length t1 but for one
\* (the first or the last) of length t2, dates ascending, descending or equal.
PageHistory(n, t1, t2, odd, order) ==
  [i \in 1..n |->
     ScheduleMessage(i, "na-scheduled-raids",
                     CASE order = "asc" -> 10 * i
                       [] order = "desc" -> 10 * (n + 1 - i)
                       [] OTHER -> 10,
                     Title(IF (odd = "first" /\ i = 1) \/ (odd = "last" /\ i = n)
                           THEN t2 ELSE t1),
                     {"u1"})]

PageInputs ==
  { PageHistory(n, t1, t2, odd, order) :
      n \in 1..MaxItems, t1 \in TitleLens, t2 \in TitleLens,
      odd \in {"first", "last"}, order \in {"asc", "desc", "tie"} }

PageInit ==
  \E h \in PageInputs :
    LET s == readyEnd([schedule |-> h, writtenSchedule |-> << >>, isStarting |-> TRUE,
                       jobs |-> << >>, running |-> {}, endListener |-> FALSE,
                       ready |-> [pc |-> "scanFetch", i |-> Len(sellChannelOrder),
                                  work |-> << >>],
                       procs |-> {}, nPushed |-> 0, startLog |-> << >>,
                       finished |-> {}, prev |-> "none", ioFailed |-> FALSE])
    IN /\ msgs = [m \in 1..Len(h) |->
                    [live |-> "posted", channelId |-> h[m].channelId,
                     content |-> [date |-> h[m].date, text |-> h[m].text],
                     reacts |-> {"u1"}, others |-> {}]]
       /\ posted = [d \in 1..NDest |-> << LoadingPage >>]
       /\ gcalValid = TRUE
       /\ calendar = << >>
       /\ gcalCall = NoCall
       /\ schedule = s.schedule
       /\ writtenSchedule = s.writtenSchedule
       /\ isStarting = s.isStarting
       /\ jobs = s.jobs
       /\ running = s.running
       /\ endListener = s.endListener
       /\ ready = s.ready
       /\ procs = s.procs
       /\ nev = 0
       /\ nPushed = s.nPushed
       /\ startLog = s.startLog
       /\ finished = s.finished
       /\ prev = s.prev
       /\ ioFailed = s.ioFailed
       /\ ilog = {}

\* The button of destination 1 is pressed once the start-up cycle is over.
PagePress ==
  /\ running = {}
  /\ nev = 0
  /\ InteractionCreate("u1", 1)

PageNext ==
  \/ \E r \in running : CycleFetched(r)
  \/ \E r \in running : CycleDeleted(r)
  \/ \E r \in running : CycleSent(r)
  \/ PagePress
  \/ \E p \in procs : InteractionDeferred(p)

PageSpec == PageInit /\ [][PageNext]_vars

\* ------------------------------------------------ the sign-ups at work
\* The bot from its construction with a valid calendar client and one sell
\* message that two users may sign up for.  A reaction changes the platform
\* first and reaches the bot later, as a gateway event: the handler execution
\* waits at "delivery", and the gateway delivers its events in their order.
SignupUsers == {"u1", "u2"}

SignupInit ==
  /\ msgs \in [MsgIds -> { [live |-> "posted", channelId |-> "na-scheduled-raids",
                            content |-> FirstContent, reacts |-> R,
                            others |-> {}] :
                              R \in SUBSET SignupUsers }]
  /\ posted = [d \in 1..NDest |-> << >>]
  /\ gcalValid = TRUE
  /\ calendar = << >>
  /\ gcalCall = NoCall
  /\ schedule = << >>
  /\ writtenSchedule = << >>
  /\ isStarting = TRUE
  /\ jobs = << >>
  /\ running = {}
  /\ endListener = FALSE
  /\ ready = [pc |-> "destFetch", i |-> 1, work |-> << >>]
  /\ procs = {}
  /\ nev = 0
  /\ nPushed = 0
  /\ startLog = << >>
  /\ finished = {}
  /\ prev = "none"
  /\ ioFailed = FALSE
  /\ ilog = {}

\* The gateway events that have not reached the bot yet.
undelivered == { p \in procs : p.pc = "delivery" }

\* User u adds the sign-up reaction to message m on the platform.
React(m, u) ==
  /\ nev < MaxEvents
  /\ msgs[m].live = "posted"
  /\ u \notin msgs[m].reacts
  /\ msgs' = [msgs EXCEPT ![m].reacts = @ \cup {u}]
  /\ nev' = nev + 1
  /\ procs' = procs \cup { [Proc(nev + 1, "messageReactionAdd", m, u)
                              EXCEPT !.pc = "delivery"] }
  /\ UNCHANGED << posted, gcalValid, calendar, gcalCall, ilog, schedule, writtenSchedule, isStarting, jobs,
                  running, endListener, ready, nPushed, startLog, finished, prev,
                  ioFailed >>

\* User u takes the sign-up reaction off message m on the platform.
Unreact(m, u) ==
  /\ nev < MaxEvents
  /\ msgs[m].live = "posted"
  /\ u \in msgs[m].reacts
  /\ msgs' = [msgs EXCEPT ![m].reacts = @ \ {u}]
  /\ nev' = nev + 1
  /\ procs' = procs \cup { [Proc(nev + 1, "messageReactionRemove", m, u)
                              EXCEPT !.pc = "delivery"] }
  /\ UNCHANGED << posted, gcalValid, calendar, gcalCall, ilog, schedule, writtenSchedule, isStarting, jobs,
                  running, endListener, ready, nPushed, startLog, finished, prev,
                  ioFailed >>

\* The oldest undelivered reaction event reaches the bot: its handler runs up
\* to its first await.
Deliver(p) ==
  /\ p \in undelivered
  /\ \A q \in undelivered : p.ev <= q.ev
  /\ Set(IF p.kind = "messageReactionAdd" THEN reactionAdd(St, p, MCMysticCoinEmoji)
                                          ELSE reactionRemove(St, p, MCMysticCoinEmoji))
  /\ UNCHANGED << msgs, posted, gcalValid, calendar, gcalCall, nev, ilog >>

\* User u adds another emoji to message m, or takes it off: the event reaches
\* the bot at once.
OtherReaction(m, u) ==
  /\ nev < MaxEvents
  /\ undelivered = {}
  /\ msgs[m].live = "posted"
  /\ msgs' = [msgs EXCEPT ![m].others = IF u \in @ THEN @ \ {u} ELSE @ \cup {u}]
  /\ nev' = nev + 1
  /\ Set(IF u \in msgs[m].others
         THEN reactionRemove(St, Proc(nev + 1, "messageReactionRemove", m, u), OtherEmoji)
         ELSE reactionAdd(St, Proc(nev + 1, "messageReactionAdd", m, u), OtherEmoji))
  /\ UNCHANGED << posted, gcalValid, calendar, gcalCall, ilog >>

\* messageUpdate of a tracked message, edited to another sell message, once
\* the backfill is over.
TrackedUpdate(m, c) ==
  /\ ready.pc = "done"
  /\ undelivered = {}
  /\ findIndex(schedule, m) # 0
  /\ MessageUpdate(m, c)

\* messageUpdate of a message whose timestamp was edited away: the handler
\* does nothing, the content being no sell message.
MessageUpdateNoSell(m) ==
  /\ nev < MaxEvents
  /\ msgs[m].live = "posted"
  /\ msgs[m].content # NoTimestamp
  /\ msgs' = [msgs EXCEPT ![m].content = NoTimestamp]
  /\ nev' = nev + 1
  /\ IF isSellMessage(NoTimestamp)
     THEN Set(callUpdate(St, msgs', Proc(nev + 1, "messageUpdate", m, "")))
     ELSE UNCHANGED bot
  /\ UNCHANGED << posted, gcalValid, calendar, gcalCall, ilog >>

\* The same for a tracked message, once the backfill is over.
TimestampRemoved(m) ==
  /\ ready.pc = "done"
  /\ undelivered = {}
  /\ findIndex(schedule, m) # 0
  /\ MessageUpdateNoSell(m)

SignupNext ==
  \/ ReadyDestFetched
  \/ ReadyDestSent
  \/ ReadyScanFetched
  \/ \E p \in procs : ParseDone(p)
  \/ \E p \in procs : MirrorDone(p)
  \/ \E p \in procs : FetchDone(p)
  \/ \E r \in running : CycleFetched(r)
  \/ \E r \in running : CycleDeleted(r)
  \/ \E r \in running : CycleSent(r)
  \/ \E m \in MsgIds, u \in SignupUsers : React(m, u)
  \/ \E m \in MsgIds, u \in SignupUsers : Unreact(m, u)
  \/ \E p \in procs : Deliver(p)
  \/ \E m \in MsgIds, u \in SignupUsers : OtherReaction(m, u)
  \/ \E p \in procs : LookupThrow(p)
  \/ \E m \in MsgIds, c \in Contents : TrackedUpdate(m, c)
  \/ \E m \in MsgIds : TimestampRemoved(m)

SignupSpec == SignupInit /\ [][SignupNext]_vars

\* ---------------------------------------------- a store of several entries
\* The bot from its construction with a valid calendar client and MaxStore
\* sell messages spread over a source channel of each region, every other one
\* carrying a sign-up reaction; one message event (an edit or a bulk delete)
\* is delivered, during the backfill or after it.
MaxStore == 3

StoreIds == 1..MaxStore

StoreChannels == {"scheduled-raids", "na-scheduled-raids"}

StoreInit ==
  /\ msgs \in { [m \in StoreIds |->
                   [live |-> "posted", channelId |-> ch[m], content |-> x[m],
                    reacts |-> IF m % 2 = 1 THEN {"u1"} ELSE {}, others |-> {}]] :
                 ch \in [StoreIds -> StoreChannels], x \in [StoreIds -> Contents] }
  /\ posted = [d \in 1..NDest |-> << >>]
  /\ gcalValid = TRUE
  /\ calendar = << >>
  /\ gcalCall = NoCall
  /\ schedule = << >>
  /\ writtenSchedule = << >>
  /\ isStarting = TRUE
  /\ jobs = << >>
  /\ running = {}
  /\ endListener = FALSE
  /\ ready = [pc |-> "destFetch", i |-> 1, work |-> << >>]
  /\ procs = {}
  /\ nev = 0
  /\ nPushed = 0
  /\ startLog = << >>
  /\ finished = {}
  /\ prev = "none"
  /\ ioFailed = FALSE
  /\ ilog = {}

\* The one message event of a behaviour.
StoreEvent ==
  /\ nev = 0
  /\ \/ \E m \in StoreIds, c \in Contents : MessageUpdate(m, c)
     \/ \E m \in StoreIds : MessageUpdateNoSell(m)
     \/ \E S \in SUBSET StoreIds : MessageDeleteBulk(S)

StoreNext ==
  \/ ReadyDestFetched
  \/ ReadyDestSent
  \/ ReadyScanFetched
  \/ \E p \in procs : ParseDone(p)
  \/ \E p \in procs : MirrorDone(p)
  \/ \E r \in running : CycleFetched(r)
  \/ \E r \in running : CycleDeleted(r)
  \/ \E r \in running : CycleSent(r)
  \/ \E r \in running : CycleNoticeSent(r)
  \/ StoreEvent

StoreSpec == StoreInit /\ [][StoreNext]_vars

\* ------------------------------------------------ the personal view at work
\* The store right after a start-up scan that found n sell messages with
\* titles of a hundred characters, dated in the order of their ids: user u1
\* signed up for all of them or for all but every fourth, and they are all NA
\* or every fifth is EU.  The start-up cycle publishes, and u1 presses the
\* button of one destination.
MaxView == 17

ViewHistory(n, who, where) ==
  LET found == [i \in 1..n |->
                  ScheduleMessage(i, IF where = "mixed" /\ i % 5 = 0 THEN "scheduled-raids"
                                     ELSE "na-scheduled-raids",
                                  i, Title(100),
                                  IF who = "some" /\ i % 4 = 0 THEN {"u2"}
                                  ELSE {"u1", "u2"})]
  IN SelectSeq(found, LAMBDA message : message.channelId = sellChannelOrder[1])
       \o SelectSeq(found, LAMBDA message : message.channelId = sellChannelOrder[2])

entryOfId(h, m) == h[findIndex(h, m)]

ViewInputs ==
  { ViewHistory(n, who, where) :
      n \in 1..MaxView, who \in {"all", "some"}, where \in {"na", "mixed"} }
    \cup { [i \in 1..n |-> ScheduleMessage(i, "na-scheduled-raids", i, Title(100), {"u2"})] :
             n \in 1..2 }

ViewInit ==
  \E h \in ViewInputs :
    LET s == readyEnd([schedule |-> h, writtenSchedule |-> << >>, isStarting |-> TRUE,
                       jobs |-> << >>, running |-> {}, endListener |-> FALSE,
                       ready |-> [pc |-> "scanFetch", i |-> Len(sellChannelOrder),
                                  work |-> << >>],
                       procs |-> {}, nPushed |-> 0, startLog |-> << >>,
                       finished |-> {}, prev |-> "none", ioFailed |-> FALSE])
    IN /\ msgs = [m \in 1..Len(h) |->
                    [live |-> "posted", channelId |-> entryOfId(h, m).channelId,
                     content |-> [date |-> entryOfId(h, m).date,
                                  text |-> entryOfId(h, m).text],
                     reacts |-> Range(entryOfId(h, m).reactorIds), others |-> {}]]
       /\ posted = [d \in 1..NDest |-> << LoadingPage >>]
       /\ gcalValid = TRUE
       /\ calendar = << >>
       /\ gcalCall = NoCall
       /\ schedule = s.schedule
       /\ writtenSchedule = s.writtenSchedule
       /\ isStarting = s.isStarting
       /\ jobs = s.jobs
       /\ running = s.running
       /\ endListener = s.endListener
       /\ ready = s.ready
       /\ procs = s.procs
       /\ nev = 0
       /\ nPushed = s.nPushed
       /\ startLog = s.startLog
       /\ finished = s.finished
       /\ prev = s.prev
       /\ ioFailed = s.ioFailed
       /\ ilog = {}

\* u1 presses the button of destination d once the start-up cycle is over.
ViewPress(d) ==
  /\ running = {}
  /\ nev = 0
  /\ InteractionCreate("u1", d)

ViewNext ==
  \/ \E r \in running : CycleFetched(r)
  \/ \E r \in running : CycleDeleted(r)
  \/ \E r \in running : CycleSent(r)
  \/ \E d \in 1..NDest : ViewPress(d)
  \/ \E p \in procs : InteractionDeferred(p)

ViewSpec == ViewInit /\ [][ViewNext]_vars

\* ================================================================= claims

\* C1. In every reachable state the schedule holds at most one entry per
\* originating message id, however the updateSchedule calls for one message
\* (backfill, messageCreate, messageUpdate, reaction handlers) interleave.
C1_OneEntryPerMessage ==
  \A i, j \in 1..Len(schedule) : schedule[i].id = schedule[j].id => i = j

\* The backfill's and a messageUpdate's updateSchedule for the same message have
\* both passed the store (both wait for the calendar), and the store holds one
\* entry.
C1_Witness ==
  /\ Len(schedule) = 1
  /\ \E p, q \in procs :
       /\ p.kind = "ready" /\ q.kind = "messageUpdate"
       /\ p.id = q.id /\ p.id = schedule[1].id
       /\ p.pc = "mirror" /\ q.pc = "mirror"

\* C2. Once the delete handler has run for a message, no entry with that id is
\* in the schedule in any later state (the original claim; the code lets an
\* updateSchedule that was suspended at its parse push the entry afterwards).
C2_DeletionComplete ==
  \A m \in MsgIds : msgs[m].live = "deleted" => findIndex(schedule, m) = 0

\* C3. Once nothing is in flight (the backfill is over, no handler is
\* suspended, the queue is empty and idle) and no platform call has thrown,
\* every destination shows the rendering of the store's entries of its
\* regions: the pages of getPrunedOutput, or a notice when there are none.
Quiescent ==
  /\ ready.pc = "done"
  /\ procs = {}
  /\ running = {}
  /\ jobs = << >>

\* What publish cycles have left in destination d: its messages without the
\* start-up placeholder.
SentPages(d) == SelectSeq(posted[d], LAMBDA page : page # LoadingPage)

Shows(d) ==
  LET regions == scheduleChannelIds[d].regions IN
    IF regionScheduleOf(schedule, regions) = << >>
    THEN SentPages(d) \in { << >>, << NoSellsPage >> }
    ELSE SentPages(d) = PagesToSend(schedule, regions)

C3_PublishedViewConsistent ==
  (Quiescent /\ ~ioFailed) => \A d \in 1..NDest : Shows(d)

\* C4. At most one publish cycle is in flight at any time.
C4_OneCycleInFlight == Cardinality(running) <= 1

\* A cycle is suspended after a write of its own while another publish task,
\* pushed meanwhile, waits in the queue.
C4_Witness ==
  /\ jobs # << >>
  /\ \E r \in running : r.writes > 0

\* C5. Tasks start in the order they were pushed (tasks are numbered as they
\* are pushed), and a task starts only when every task started before it has
\* finished.
C5_StartInPushOrder ==
  /\ \A i \in 1..Len(startLog) : startLog[i] = i
  /\ \A i \in 1..(Len(startLog) - 1) : startLog[i] \in finished

\* Three tasks have started, the last after two were waiting together.
C5_Witness ==
  /\ Len(startLog) >= 3
  /\ running # {}
  /\ Len(jobs) >= 1

C7_FingerprintSkip == \A r \in running : r.mustSkip => r.writes = 0

\* C8. No publish cycle has written to a destination while the ready handler
\* has not finished the scan of the source channels (the original claim; the
\* code starts a cycle for an event delivered during the scan).
C8_NoWriteBeforeBackfill == \A r \in running : r.writes > 0 => ready.pc = "done"

\* C9. A button interaction delivered while isStarting is true is answered
\* with the still-starting notice, and the handler does not read the schedule.
C9_StartingNotice ==
  \A e \in ilog : e.starting => (e.reply = "booting" /\ ~e.read)

\* A button was pressed during start-up and answered.
C9_Witness == \E e \in ilog : e.starting /\ e.reply = "booting"

\* C10. A handler execution that mutates the store pushes exactly one publish
\* task (the original claim; the reaction handlers push none).  The handlers
\* that run to their end at delivery change the schedule in that step; the
\* others are in procs, with mutated set, until the step that ends them, and
\* push in that step.
C10_OnePublishPerMutation ==
  [][ /\ (nev' = nev + 1 /\ schedule' # schedule
            /\ \A q \in procs' : q.ev # nev') => nPushed' = nPushed + 1
      /\ \A p \in procs :
           (p.kind # "ready" /\ p.mutated /\ \A q \in procs' : q.ev # p.ev)
             => nPushed' = nPushed + 1 ]_vars

\* ------------------------------------------------- claims on the paginator
\* The start-up cycle has sent its pages to every destination.
Published == running = {}

RECURSIVE AllLines(_)
AllLines(pages) ==
  IF pages = << >> THEN << >> ELSE Head(pages).lines \o AllLines(Tail(pages))

EntryLinesOf(pages) == SelectSeq(AllLines(pages), LAMBDA line : line.kind = "entry")

\* The pages of destination d that getPrunedOutput returned.
RenderedPages(d) ==
  SelectSeq(posted[d], LAMBDA page : page # LoadingPage /\ page # NoSellsPage)

\* The first pages of the personal views sent as replies.
ReplyPages == { e.content : e \in { x \in ilog : x.reply = "personal" } }

Digits(n) == IF n < 10 THEN 1 ELSE IF n < 100 THEN 2 ELSE 3

\* The length of a line as it is sent.
TextLen(line) ==
  CASE line.kind = "entry" -> LineLen(line)
    [] line.kind = "subtext" -> 2 + 1 + Digits(line.date) + 21 + 2
    [] OTHER -> Len(line.text)

RECURSIVE SumLen(_)
SumLen(lines) == IF lines = << >> THEN 0 ELSE TextLen(Head(lines)) + SumLen(Tail(lines))

\* The length of lines.join('\r\n\r\n').
RenderedLen(lines) ==
  IF lines = << >> THEN 0 ELSE SumLen(lines) + 4 * (Len(lines) - 1)

\* What the paginator counts for a page: its entry lines and its divider.
CountedLen(lines) == SumLen(SelectSeq(lines, LAMBDA line : line.kind # "subtext"))

\* C12. Concatenating the entry lines of the pages sent to a destination gives
\* the store's entries of its regions in ascending date order, each once and
\* none missing (the original claim; the paginator drops the entry at which
\* it closes a page).
C12_PaginationOrdering ==
  Published =>
    \A d \in 1..NDest :
      LET out == EntryLinesOf(RenderedPages(d))
          inp == regionScheduleOf(schedule, scheduleChannelIds[d].regions)
      IN /\ Len(out) = Len(inp)
         /\ \A i \in 1..Len(inp) : \E j \in 1..Len(out) : out[j].id = inp[i].id
         /\ \A j, k \in 1..Len(out) : j < k => out[j].date <= out[k].date

\* C13 (original). The text sent for a page, its lines joined with the
\* blank-line separator and its trailer included, is at most Budget long.
C13_RenderedWithinBudget ==
  /\ \A d \in 1..NDest : \A i \in 1..Len(RenderedPages(d)) :
       RenderedLen(RenderedPages(d)[i].lines) <= Budget
  /\ \A lines \in ReplyPages : RenderedLen(lines) <= Budget

\* C13 (amended). For every page the lengths of its entry lines and divider,
\* which is what the paginator counts, sum to less than Budget; the
\* separators and the trailer come on top.
C13_CountedWithinBudget ==
  /\ \A d \in 1..NDest : \A i \in 1..Len(RenderedPages(d)) :
       CountedLen(RenderedPages(d)[i].lines) < Budget
  /\ \A lines \in ReplyPages : CountedLen(lines) < Budget

\* A page was sent whose text is longer than Budget.
C13_Witness ==
  \E d \in 1..NDest : \E i \in 1..Len(RenderedPages(d)) :
    /\ RenderedLen(RenderedPages(d)[i].lines) > Budget
    /\ CountedLen(RenderedPages(d)[i].lines) < Budget

\* C15. A line that makes the page's accumulated length exactly Budget is
\* still appended to the current page (the original claim; the paginator
\* closes the page at `>=` and the entry is on no page): when the lines of the
\* first k entries in date order sum to exactly Budget, the first page holds
\* those k entries.
C15_ExactFitAppended ==
  Published =>
    \A d \in 1..NDest :
      LET inp == SortByDate(regionScheduleOf(schedule, scheduleChannelIds[d].regions))
          lines == [i \in 1..Len(inp) |-> EntryLine(inp[i])]
      IN \A k \in 1..Len(inp) :
           SumLen(SubSeq(lines, 1, k)) = Budget =>
             /\ RenderedPages(d) # << >>
             /\ EntryLinesOf(<< RenderedPages(d)[1] >>) = SubSeq(lines, 1, k)

\* C16. Every page the paginator returns for a non-empty input holds at least
\* one entry line, and a single-entry input gives exactly one page, which
\* holds that entry.
C16_NoEmptyPage ==
  /\ \A d \in 1..NDest : \A i \in 1..Len(RenderedPages(d)) :
       EntryLinesOf(<< RenderedPages(d)[i] >>) # << >>
  /\ \A lines \in ReplyPages : \E i \in 1..Len(lines) : lines[i].kind = "entry"
  /\ (Published /\ Len(schedule) = 1) =>
       \A d \in 1..NDest :
         /\ Len(RenderedPages(d)) = 1
         /\ EntryLinesOf(RenderedPages(d)) = << EntryLine(schedule[1]) >>

\* A destination got a second page, opened after the first was closed.
C16_Witness ==
  /\ Published
  /\ \E d \in 1..NDest : Len(RenderedPages(d)) >= 2

\* ------------------------------------------ claims on the entries' fields
\* C18. For every entry, reactorNames and reactorIds describe the same users:
\* a user is in reactorIds exactly when the user's name is in reactorNames
\* (the original claim; the reaction handlers change reactorIds only).
C18_ReactorNamesInSync ==
  \A i \in 1..Len(schedule) :
    Range(schedule[i].reactorNames) = { username(id) : id \in Range(schedule[i].reactorIds) }

\* C19. The calendarEvent stored on an entry has the title, start and guests
\* derived from the entry's current text, date and reactorNames (the original
\* claim; updateSchedule assigns date and text and leaves calendarEvent).
C19_CalendarEventCurrent ==
  \A i \in 1..Len(schedule) :
    schedule[i].calendarEvent = createCalendarEventFromMessage(schedule[i])


\* ------------------------------------------------ claims on the sign-ups
\* The entry of message m, with id 0 when m is not tracked.
entryOf(sched, m) ==
  IF findIndex(sched, m) = 0
  THEN [id |-> 0, date |-> 0, text |-> "", reactorIds |-> << >>]
  ELSE sched[findIndex(sched, m)]

\* The handler execution p takes this step.
StepOf(p) == p \in procs /\ p \notin procs'

\* C11: when two content updates of the same tracked message were delivered
\* one after the other and the updateSchedule of both has written the store,
\* the entry holds the date and text of the later-delivered update.
C11_AppliedInDeliveryOrder ==
  \A p \in procs, q \in procs :
    ( /\ p.kind = "messageUpdate" /\ q.kind = "messageUpdate"
      /\ p.id = q.id /\ p.ev < q.ev
      /\ p.pc = "mirror" /\ q.pc = "mirror"
      /\ findIndex(schedule, q.id) # 0 )
    => /\ entryOf(schedule, q.id).date = q.date
       /\ entryOf(schedule, q.id).text = q.text

\* C17: when the sign-up reaction add of user u on a tracked message was the
\* event delivered last, and the next event, the same user's reaction remove
\* on that message, is delivered, reactorIds is what it was before the add
\* (the add appended u, so that is reactorIds without its last element).
C17_ReactionSymmetry ==
  [][\A p \in procs, q \in procs :
       ( /\ q.kind = "messageReactionAdd" /\ q.pc = "fetch"
         /\ p.kind = "messageReactionRemove" /\ p.pc = "delivery"
         /\ p.id = q.id /\ p.user = q.user /\ p.ev = q.ev + 1
         /\ StepOf(p)
         /\ findIndex(schedule, p.id) # 0 )
       => entryOf(schedule', p.id).reactorIds
            = SubSeq(entryOf(schedule, p.id).reactorIds, 1,
                     Len(entryOf(schedule, p.id).reactorIds) - 1)]_vars

\* C20: no step of a reaction handler's execution changes the date or the
\* text of an entry.
C20_ReactionKeepsDateAndText ==
  [][\A p \in procs :
       ( /\ p.kind \in {"messageReactionAdd", "messageReactionRemove"}
         /\ StepOf(p)
         /\ findIndex(schedule, p.id) # 0 )
       => /\ entryOf(schedule', p.id).date = entryOf(schedule, p.id).date
          /\ entryOf(schedule', p.id).text = entryOf(schedule, p.id).text]_vars

\* ------------------------------------------------ claims on the backfill
\* C25: when the backfill has finished and no event was delivered meanwhile,
\* the store holds an entry for every sell message of the source channels,
\* with or without a valid calendar client.
C25_BackfillRebuildsStore ==
  (ready.pc = "done" /\ nev = 0)
    => \A m \in MsgIds : msgs[m].live = "posted" => findIndex(schedule, m) # 0

\* ------------------------------------------- claims on the publish cycle
\* C29: within one publish cycle and one destination, while the deletes go on
\* the destination holds prior messages only and nothing was sent, and while
\* the sends go on every prior message is gone and the destination holds the
\* pages of getPrunedOutput sent so far, in page order.
C29_DeletesThenPagesInOrder ==
  \A r \in running :
    /\ r.ph = "delete" => (r.pi = 0 /\ r.pages = << >> /\ Len(posted[r.d]) = r.todel)
    /\ r.ph = "send" =>
         posted[r.d] = SubSeq(PagesToSend(schedule, scheduleChannelIds[r.d].regions),
                              1, r.pi - 1)

\* A cycle that deleted the placeholder of a destination has sent the first
\* of several pages to it and is about to send the second.
C29_Witness ==
  \E r \in running :
    /\ r.ph = "send" /\ r.pi = 2 /\ r.writes >= 2
    /\ Len(posted[r.d]) = 1
    /\ Len(PagesToSend(schedule, scheduleChannelIds[r.d].regions)) >= 2

\* C30: once a publish cycle is over, in every destination that has an entry
\* exactly one of the pages sent carries the "My Schedule" button, and it is
\* the page sent last; while the sends go on, no page sent so far carries it.
C30_ButtonOnLastPageOnly ==
  /\ \A r \in running : \A i \in 1..Len(posted[r.d]) :
       (r.ph = "send" /\ posted[r.d][i] # LoadingPage) => ~posted[r.d][i].button
  /\ Published =>
       \A d \in 1..NDest :
         regionScheduleOf(schedule, scheduleChannelIds[d].regions) # << >>
           => /\ RenderedPages(d) # << >>
              /\ \A i \in 1..Len(RenderedPages(d)) :
                   RenderedPages(d)[i].button <=> (i = Len(RenderedPages(d)))

\* A finished publish of several pages to a destination.
C30_Witness ==
  /\ Published
  /\ \E d \in 1..NDest : Len(RenderedPages(d)) >= 2 /\ RenderedPages(d)[1].lines # << >>

\* ------------------------------------------- claims on the event handlers
\* C21: the handling of a reaction event with another emoji than the sign-up
\* emoji, or with the sign-up emoji on a message that is not tracked, leaves
\* the store unchanged, suspends no handler (no fetch, no re-parse, no calendar
\* call) and pushes no publish task.
C21_OnlySignupEmojiObserved ==
  [][ /\ (\E m \in MsgIds, u \in SignupUsers : OtherReaction(m, u)) => UNCHANGED bot
      /\ \A p \in undelivered :
           (Deliver(p) /\ findIndex(schedule, p.id) = 0)
             => /\ procs' = procs \ {p}
                /\ UNCHANGED << schedule, writtenSchedule, isStarting, jobs, running,
                                nPushed, startLog, finished >> ]_vars

\* A reaction with another emoji on a tracked message has been handled.
C21_Witness ==
  \E m \in MsgIds :
    /\ findIndex(schedule, m) # 0
    /\ msgs[m].others # {}
    /\ nev = 1

\* C26: when the messageCreate or messageUpdate handler of an event that
\* mutated the store ends while on the calendar path of updateSchedule, with
\* or without a failure on that path, it has pushed the publish task.
C26_MirrorNeverBlocksPublish ==
  [][\A p \in procs :
       ( /\ p.kind \in {"messageCreate", "messageUpdate"}
         /\ p.pc = "mirror"
         /\ p.mutated
         /\ \A q \in procs' : q.ev # p.ev )
       => nPushed' = nPushed + 1]_vars

\* The store after the step is the store before it, but for the date and the
\* text of entry i.
OnlyDateAndText(i) ==
  /\ Len(schedule') = Len(schedule)
  /\ \A j \in 1..Len(schedule) :
       IF j = i
       THEN [schedule'[j] EXCEPT !.date = schedule[j].date, !.text = schedule[j].text]
              = schedule[j]
       ELSE schedule'[j] = schedule[j]

\* C22: every step of the messageUpdate handler for a message that is tracked
\* (its delivery, the end of its parse, the end of its calendar calls) leaves
\* the store as it was but for the date and the text of the message's entry.
C22_UpdateChangesOnlyDateAndText ==
  [][ /\ \A q \in procs' :
           ( /\ nev' = nev + 1 /\ q.ev = nev' /\ q.kind = "messageUpdate"
             /\ findIndex(schedule, q.id) # 0 )
           => OnlyDateAndText(findIndex(schedule, q.id))
      /\ \A p \in procs :
           ( /\ p.kind = "messageUpdate" /\ StepOf(p)
             /\ findIndex(schedule, p.id) # 0 )
           => OnlyDateAndText(findIndex(schedule, p.id)) ]_vars

\* The update of a tracked message with a reactor has rewritten its entry, in
\* a store of several entries of which it is not the last.
C22_Witness ==
  \E p \in procs :
    /\ p.kind = "messageUpdate" /\ p.pc = "mirror" /\ p.found /\ p.mutated
    /\ Len(schedule) >= 2
    /\ findIndex(schedule, p.id) \in 1..(Len(schedule) - 1)
    /\ entryOf(schedule, p.id).reactorIds # << >>
    /\ entryOf(schedule, p.id).date = p.date

\* C23: a bulk delete of the batch S leaves in the store the entries whose id
\* is not in S, all of them and in the order they had.
C23_BulkDeleteRemovesExactlyBatch ==
  [][\A S \in SUBSET StoreIds :
       MessageDeleteBulk(S)
         => schedule' = SelectSeq(schedule, LAMBDA entry : entry.id \notin S)]_vars

\* Two messages that were tracked (the start-up cycle published them) have
\* been deleted in bulk, and the third is the store's only entry.
C23_Witness ==
  /\ nev = 1
  /\ Len(schedule) = 1
  /\ msgs[schedule[1].id].live = "posted"
  /\ \E a \in StoreIds, b \in StoreIds :
       /\ a # b
       /\ msgs[a].live = "deleted" /\ msgs[b].live = "deleted"
       /\ \E i \in 1..Len(EntryLinesOf(posted[1])) : EntryLinesOf(posted[1])[i].id = a
       /\ \E i \in 1..Len(EntryLinesOf(posted[1])) : EntryLinesOf(posted[1])[i].id = b

\* C24: every entry of the store is the entry of a sell message: its date and
\* text are those of a content with a timestamp and text around it.
C24_OnlySellMessagesEnter ==
  \A i \in 1..Len(schedule) :
    isSellMessage([date |-> schedule[i].date, text |-> schedule[i].text])

\* ------------------------------------------- claims on the personal view
\* The entries the view of handler execution p is about: those of the store
\* that user p.user is a reactor of and whose region the button lists.
Matching(p) ==
  { i \in 1..Len(schedule) :
      /\ p.user \in Range(schedule[i].reactorIds)
      /\ schedule[i].region \in scheduleChannelIds[p.id].regions }

\* The reply that the step adds to the log.
RepliesOf(p) == IF StepOf(p) /\ p.pc = "defer" THEN ilog' \ ilog ELSE {}

ShownIds(reply) ==
  { line.id : line \in Range(SelectSeq(reply.content, LAMBDA l : l.kind = "entry")) }

\* The count of the "items not displayed" line of the reply, 0 without one.
NotDisplayed(reply) ==
  LET notes == SelectSeq(reply.content, LAMBDA l : l.kind = "subtext") IN
    IF notes = << >> THEN 0 ELSE notes[1].date

\* C28 as stated: the personal view holds exactly the matching entries, and
\* is the not-signed-up notice when there is none.
C28_ViewHoldsExactlyMatching ==
  [][\A p \in procs : \A reply \in RepliesOf(p) :
       IF Matching(p) = {} THEN reply.reply = "nothing"
       ELSE /\ reply.reply = "personal"
            /\ ShownIds(reply) = { schedule[i].id : i \in Matching(p) }]_vars

\* C28: the personal view is the not-signed-up notice when no entry matches;
\* otherwise it holds matching entries only, the earliest ones in date order,
\* and the matching entries it does not hold are counted by its "items not
\* displayed" line.
C28_ViewHoldsFirstPageOfMatching ==
  [][\A p \in procs : \A reply \in RepliesOf(p) :
       IF Matching(p) = {} THEN reply.reply = "nothing"
       ELSE LET shown == SelectSeq(reply.content, LAMBDA l : l.kind = "entry")
                sorted == SortByDate(SelectSeq(schedule, LAMBDA message :
                                        message.id \in { schedule[i].id : i \in Matching(p) }))
            IN /\ reply.reply = "personal"
               /\ Len(shown) <= Len(sorted)
               /\ \A k \in 1..Len(shown) : shown[k].id = sorted[k].id
               /\ Len(shown) + NotDisplayed(reply) = Cardinality(Matching(p))]_vars

\* A personal view that leaves out entries of other regions and of other
\* users, and counts the matching entries it has no room for.
C28_Witness ==
  \E reply \in ilog :
    /\ reply.reply = "personal"
    /\ NotDisplayed(reply) > 0
    /\ \E i \in 1..Len(schedule) : schedule[i].region = "EU"
    /\ \E i \in 1..Len(schedule) : "u1" \notin Range(schedule[i].reactorIds)
    /\ \A i \in 1..Len(schedule) : schedule[i].region = "EU" => schedule[i].id \notin ShownIds(reply)

\* ------------------------------------------------- the calendar (GcalSpec)
\* createEventFromScheduleMessage against one target calendar.  The calendar
\* is the sequence of its events in the order events.list walks them; the
\* service answers every call (a rejected call is not part of this
\* specification).

\* the number of events one answer of events.list holds: the call passes only
\* calendarId and reads data.items of the one answer, it follows no page token
ListPage == 2

\* the largest calendar considered: one event more than one answer holds
MaxCal == ListPage + 1

EventIds == 1..MaxCal

eventIds(cal) == { cal[k].id : k \in 1..Len(cal) }

\* the calendars: events with distinct ids, each made from some content
Calendars ==
  { cal \in UNION { [1..n -> [id : EventIds, title : {c.text : c \in Contents},
                              start : {c.date * 1000 : c \in Contents}]] : n \in 0..MaxCal } :
      /\ \A j, k \in 1..Len(cal) : j # k => cal[j].id # cal[k].id
      /\ \A k \in 1..Len(cal) : \E c \in Contents :
           cal[k].title = c.text /\ cal[k].start = c.date * 1000 }

\* (await gcal.events.list({ calendarId })).data.items
listItems(cal) == SubSeq(cal, 1, IF Len(cal) < ListPage THEN Len(cal) ELSE ListPage)

\* the resource built from scheduleMessage.calendarEvent
resourceOf(call) == [id |-> call.id, title |-> call.title, start |-> call.start]

GcalInit ==
  /\ msgs = [m \in MsgIds |-> [live |-> "none", channelId |-> "na-scheduled-raids",
                              content |-> FirstContent, reacts |-> {}, others |-> {}]]
  /\ posted = [d \in 1..NDest |-> << >>]
  /\ gcalValid = TRUE
  /\ calendar \in Calendars
  /\ gcalCall = NoCall
  /\ schedule = << >>
  /\ writtenSchedule = << >>
  /\ isStarting = TRUE
  /\ jobs = << >>
  /\ running = {}
  /\ endListener = FALSE
  /\ ready = [pc |-> "destFetch", i |-> 1, work |-> << >>]
  /\ procs = {}
  /\ nev = 0
  /\ nPushed = 0
  /\ startLog = << >>
  /\ finished = {}
  /\ prev = "none"
  /\ ioFailed = FALSE
  /\ ilog = {}

GcalFrame ==
  UNCHANGED << msgs, posted, gcalValid, schedule, writtenSchedule, isStarting, jobs,
               running, endListener, ready, procs, nev, nPushed, startLog, finished,
               prev, ioFailed, ilog >>

\* createEventFromScheduleMessage(scheduleMessage, calendarId) up to its first
\* await: without a calendarEvent it logs and returns
CreateCalled(id, c, has) ==
  /\ gcalCall.pc = "idle"
  /\ gcalCall' = [pc |-> IF has THEN "list" ELSE "done", id |-> id, has |-> has,
                  title |-> c.text, start |-> c.date * 1000,
                  existed |-> id \in eventIds(calendar), raised |-> FALSE]
  /\ UNCHANGED calendar
  /\ GcalFrame

\* events.list has answered: an event of that id among the items -> update,
\* otherwise the resource is built and inserted
ListAnswered ==
  /\ gcalCall.pc = "list"
  /\ gcalCall' = [gcalCall EXCEPT !.pc =
       IF gcalCall.id \in eventIds(listItems(calendar)) THEN "update" ELSE "insert"]
  /\ UNCHANGED calendar
  /\ GcalFrame

\* updateCalendarEvent: events.update replaces the event of that id
UpdateAnswered ==
  /\ gcalCall.pc = "update"
  /\ calendar' = [k \in 1..Len(calendar) |->
       IF calendar[k].id = gcalCall.id THEN resourceOf(gcalCall) ELSE calendar[k]]
  /\ gcalCall' = [gcalCall EXCEPT !.pc = "done"]
  /\ GcalFrame

\* events.insert has answered: the service refuses an id in use with 409,
\* which the catch logs as "already exists" before returning
InsertAnswered ==
  /\ gcalCall.pc = "insert"
  /\ calendar' = IF gcalCall.id \in eventIds(calendar)
                   THEN calendar
                   ELSE Append(calendar, resourceOf(gcalCall))
  /\ gcalCall' = [gcalCall EXCEPT !.pc = "done"]
  /\ GcalFrame

GcalNext ==
  \/ \E id \in EventIds, c \in Contents, has \in BOOLEAN : CreateCalled(id, c, has)
  \/ ListAnswered
  \/ UpdateAnswered
  \/ InsertAnswered

GcalSpec == GcalInit /\ [][GcalNext]_vars

\* C27: whenever an event with the entry's id was already in the target
\* calendar, a finished createEventFromScheduleMessage has raised nothing and
\* has left that event with the entry's current fields.
C27_CreateUpdatesExisting ==
  (gcalCall.pc = "done" /\ gcalCall.has /\ gcalCall.existed) =>
    /\ ~gcalCall.raised
    /\ \E k \in 1..Len(calendar) : calendar[k] = resourceOf(gcalCall)

\* ------------------------------------------ replies that fail (ReplySpec)
\* The interactionCreate handler when a call on the interaction rejects.
\* The try block opens after the isStarting branch, so the booting reply is
\* awaited outside it.

\* A handler whose try block covers nothing.
guardedNever(starting) == FALSE

\* whether the await that rejected sits inside the try block
guarded(starting) == ~starting

\* the outcome of an await on the interaction that rejects: the catch block
\* takes over, or the rejection leaves the handler
rejected(starting) == IF guarded(starting) THEN "caught" ELSE "escaped"

Outcome(starting, reply, read) ==
  [starting |-> starting, reply |-> reply, read |-> read, content |-> << >>]

\* interactionCreate while starting, and interaction.reply() rejects
InteractionReplyThrow(u, d) ==
  /\ nev < MaxEvents
  /\ nev' = nev + 1
  /\ stillStarting(St)
  /\ ilog' = ilog \cup { Outcome(isStarting, rejected(isStarting), FALSE) }
  /\ UNCHANGED bot
  /\ UNCHANGED << msgs, posted, gcalValid, calendar, gcalCall >>

\* a call of the try block has rejected at handler p: the catch block logs
\* and awaits editReply with the apology, unless the rejection escapes
catch(p, read, pc) ==
  IF rejected(p.starting) = "caught"
  THEN /\ procs' = (procs \ {p}) \cup { [p EXCEPT !.pc = pc] }
       /\ ilog' = ilog
  ELSE /\ procs' = procs \ {p}
       /\ ilog' = ilog \cup { Outcome(p.starting, "escaped", read) }

ReplyFrame ==
  UNCHANGED << msgs, posted, gcalValid, calendar, gcalCall, nev, schedule,
               writtenSchedule, isStarting, jobs, running, endListener, ready,
               nPushed, startLog, finished, prev, ioFailed >>

\* interaction.deferReply() rejects (the interaction has expired)
InteractionDeferThrow(p) ==
  /\ p.pc = "defer"
  /\ catch(p, FALSE, "oopsUndeferred")
  /\ ReplyFrame

\* deferReply has returned, the schedule is filtered, and editReply rejects
InteractionEditThrow(p) ==
  /\ p.pc = "defer"
  /\ catch(p, TRUE, "oops")
  /\ ReplyFrame

\* the editReply of the catch block has returned: the user reads the apology
InteractionOopsDone(p) ==
  /\ p.pc = "oops"
  /\ ilog' = ilog \cup { Outcome(p.starting, "oops", TRUE) }
  /\ procs' = procs \ {p}
  /\ ReplyFrame

\* the editReply of the catch block rejects: the inner catch logs, the
\* handler ends
InteractionOopsThrow(p) ==
  /\ p.pc \in {"oops", "oopsUndeferred"}
  /\ ilog' = ilog \cup { Outcome(p.starting, "dropped", p.pc = "oops") }
  /\ procs' = procs \ {p}
  /\ ReplyFrame

ReplyNext ==
  \/ ReadyDestFetched
  \/ ReadyDestSent
  \/ ReadyScanFetched
  \/ \E p \in procs : ParseDone(p)
  \/ \E p \in procs : MirrorDone(p)
  \/ \E r \in running : CycleFetched(r)
  \/ \E r \in running : CycleDeleted(r)
  \/ \E r \in running : CycleSent(r)
  \/ \E u \in Users, d \in 1..NDest : InteractionCreate(u, d)
  \/ \E u \in Users, d \in 1..NDest : InteractionReplyThrow(u, d)
  \/ \E p \in procs : InteractionDeferred(p)
  \/ \E p \in procs : InteractionDeferThrow(p)
  \/ \E p \in procs : InteractionEditThrow(p)
  \/ \E p \in procs : InteractionOopsDone(p)
  \/ \E p \in procs : InteractionOopsThrow(p)

ReplySpec == Init /\ [][ReplyNext]_vars

CycleStep ==
  \/ \E r \in running : CycleFetched(r)
  \/ \E r \in running : CycleDeleted(r)
  \/ \E r \in running : CycleSent(r)
  \/ \E r \in running : CycleNoticeSent(r)

QueueNext ==
  \/ ReadyDestFetched
  \/ ReadyDestSent
  \/ ReadyScanFetched
  \/ \E p \in procs : ParseDone(p)
  \/ \E p \in procs : MirrorDone(p)
  \/ CycleStep
  \/ \E m \in MsgIds, c \in Contents : MessageCreate(m, c)
  \/ \E m \in MsgIds, c \in Contents : MessageUpdate(m, c)
  \/ \E m \in MsgIds : MessageDelete(m)
  \/ \E S \in SUBSET MsgIds : MessageDeleteBulk(S)

\* construction with a valid calendar client
QueueInit == Init /\ gcalValid

QueueSpec == QueueInit /\ [][QueueNext]_vars /\ WF_vars(CycleStep)

\* the tasks pushed so far, in the order of their push
Pushed == 1..nPushed

\* C32: the queue starts no task twice, and under fairness every task that
\* was pushed has in the end been started and has finished: from some point
\* on the tasks started and the tasks finished are exactly the tasks pushed.
C32_EveryTaskRunsOnce ==
  /\ [](\A i, j \in 1..Len(startLog) : i # j => startLog[i] # startLog[j])
  /\ [](Range(startLog) \subseteq Pushed)
  /\ <>[](Range(startLog) = Pushed /\ finished = Pushed)

\* four tasks were pushed, the two of startup and those of two event
\* handlers, and all four have been started and have finished
C32_Witness ==
  /\ nPushed = 4
  /\ finished = Pushed
  /\ Len(startLog) = 4

\* C33: the messageUpdate handler of an edit that takes the timestamp out of a
\* tracked message leaves the store as it is, the entry with every field, and
\* pushes no task and suspends no handler.
C33_FailingEditKeepsEntry ==
  [][\A m \in StoreIds :
       (MessageUpdateNoSell(m) /\ findIndex(schedule, m) # 0) =>
         /\ schedule' = schedule
         /\ nPushed' = nPushed /\ jobs' = jobs /\ running' = running
         /\ procs' = procs]_vars

\* the startup is over and nothing waits or runs; a tracked message has lost
\* its timestamp and its entry still holds the date and the title parsed before
C33_Witness ==
  \E m \in StoreIds :
    /\ msgs[m].content = NoTimestamp
    /\ findIndex(schedule, m) # 0
    /\ entryOf(schedule, m).text # "" /\ entryOf(schedule, m).date # 0
    /\ ready.pc = "done" /\ procs = {} /\ running = {} /\ jobs = << >>
    /\ nPushed = 2

\* C34: no entry's reactorIds holds the same user id twice.
C34_ReactorIdsAreASet ==
  \A i \in 1..Len(schedule) :
    \A j, k \in 1..Len(schedule[i].reactorIds) :
      j # k => schedule[i].reactorIds[j] # schedule[i].reactorIds[k]

\* C35: in single-page mode getPrunedOutput returns one page for a non-empty
\* input, which is the reply sent; the page shows the first entries in date
\* order up to the first that does not fit and nothing after it; when some
\* entry is not shown the page ends with the one trailer, whose count is the
\* number of entries not shown, and otherwise it has no trailer.
C35_SinglePageWithTrailer ==
  \A e \in ilog :
    e.reply = "personal" =>
      LET result == SelectSeq(schedule, LAMBDA message :
                      signedUp(message, "u1", scheduleChannelIds[1].regions))
          out == getPrunedOutput(result, TRUE)
          sorted == SortByDate(result)
          shown == SelectSeq(out[1], LAMBDA l : l.kind = "entry")
          notes == SelectSeq(out[1], LAMBDA l : l.kind = "subtext")
      IN /\ result # << >>
         /\ Len(out) = 1
         /\ e.content = out[1]
         /\ Len(shown) <= Len(sorted)
         /\ \A k \in 1..Len(shown) : shown[k].id = sorted[k].id
         /\ IF Len(shown) < Len(sorted)
            THEN /\ notes = << SubtextLine(Len(sorted) - Len(shown)) >>
                 /\ out[1][Len(out[1])] = notes[1]
            ELSE notes = << >>

\* a reply whose page leaves out several entries: the first that did not fit
\* and others after it
C35_Witness ==
  \E e \in ilog :
    /\ e.reply = "personal"
    /\ \E k \in 1..Len(e.content) : e.content[k].kind = "subtext" /\ e.content[k].date >= 3
    /\ \E k \in 1..Len(e.content) : e.content[k].kind = "entry"

\* The fingerprints of the entries rendered on the pages.
RenderedFingerprint(pages) ==
  LET lines == EntryLinesOf(pages) IN [k \in 1..Len(lines) |-> << lines[k].id, lines[k].date, lines[k].text >>]

\* C36: the fingerprint a publish cycle records as it ends is the fingerprint
\* of the entries it rendered and sent (those on the pages of the last
\* destination, whose region every entry of this model has), also when the
\* store was mutated while the cycle was suspended at a send.
C36_RecordsWhatWasRendered ==
  [][\A r \in running :
       (r.ph = "send" /\ r.d = NDest /\ r.pi = Len(r.pages) /\ CycleSent(r)) =>
         writtenSchedule' = RenderedFingerprint(r.pages)]_vars

\* C37: a publish cycle that passed the fingerprint check and whose calls all
\* return ends only after the last destination, with the fingerprint of the
\* store recorded, also when a destination has no entry of its regions.
C37_CycleCoversEveryDestination ==
  [][\A r \in running :
       (r.n \in finished' /\ r.n \notin finished /\ ~CycleThrow(r)) =>
         /\ r.d = NDest
         /\ writtenSchedule' = FingerprintOf(schedule')]_vars

C39_StartupCycleRewritesPlaceholders ==
  (ready.pc = "done" /\ ~isStarting /\ ~ioFailed) =>
    \A d \in 1..NDest : \A k \in 1..Len(posted[d]) : posted[d][k] # LoadingPage

\* ------------------------------------------- the notice picked (NoticeSpec)
\* NO_SELLS_COMMENTS[Math.round(Math.random() * NO_SELLS_COMMENTS.length)]

\* the listed notices, each kept as a notice line that carries its position
NO_SELLS_COMMENTS ==
  [i \in 1..24 |-> [kind |-> "notice", id |-> i, date |-> 0, text |-> "NO_SELLS_COMMENTS"]]

\* Math.random() is k / (RandomSteps * N) for some k in Randoms: the values
\* of [0, 1) on a grid of RandomSteps points per notice
RandomSteps == 2

Randoms == 0..(RandomSteps * Len(NO_SELLS_COMMENTS) - 1)

\* Math.round(y) for y = a / b, a >= 0, b > 0: floor(y + 1/2)
round(a, b) == (2 * a + b) \div (2 * b)

\* Math.round(Math.random() * NO_SELLS_COMMENTS.length), zero-based
noticeIndex(k) == round(k, RandomSteps)

\* the send of the notice picked with Math.random() = k / (RandomSteps * N)
\* has returned and queueFunction returns; past the end of the array the
\* content is undefined, the send rejects and with it the task
CycleNoticePicked(r, k) ==
  /\ r.ph = "notice"
  /\ IF noticeIndex(k) < Len(NO_SELLS_COMMENTS)
     THEN /\ posted' = [posted EXCEPT ![r.d] =
                          Append(@, [lines |-> << NO_SELLS_COMMENTS[noticeIndex(k) + 1] >>,
                                     button |-> FALSE])]
          /\ Set(next(St, r.n, FALSE))
     ELSE /\ posted' = posted
          /\ Set(next([St EXCEPT !.prev = "failed", !.ioFailed = TRUE], r.n, TRUE))
  /\ UNCHANGED << msgs, gcalValid, calendar, gcalCall, nev, ilog >>

NoticeNext ==
  \/ ReadyDestFetched
  \/ ReadyDestSent
  \/ ReadyScanFetched
  \/ \E p \in procs : ParseDone(p)
  \/ \E p \in procs : MirrorDone(p)
  \/ \E r \in running : CycleFetched(r)
  \/ \E r \in running : CycleDeleted(r)
  \/ \E r \in running : CycleSent(r)
  \/ \E r \in running, k \in Randoms : CycleNoticePicked(r, k)
  \/ \E m \in MsgIds, c \in Contents : MessageCreate(m, c)
  \/ \E m \in MsgIds : MessageDelete(m)

NoticeSpec == QueueInit /\ [][NoticeNext]_vars

\* C40: whatever Math.random() returns, the index computed for the notice is
\* one of 0..N-1, N the number of listed notices, and the step sends one of
\* them to the destination.
C40_NoticeIndexInRange ==
  [][\A r \in running : \A k \in Randoms :
       CycleNoticePicked(r, k) =>
         /\ noticeIndex(k) \in 0..(Len(NO_SELLS_COMMENTS) - 1)
         /\ Len(posted'[r.d]) = Len(posted[r.d]) + 1
         /\ \E i \in 1..Len(NO_SELLS_COMMENTS) :
              posted'[r.d][Len(posted'[r.d])].lines = << NO_SELLS_COMMENTS[i] >>]_vars

====
